---------------------------- MODULE Spec2Model ----------------------------
(***************************************************************************)
(* Model of bot_webhook.py: a Flask webhook endpoint that hands each       *)
(* Telegram update to a fire-and-forget task, and the image-generation     *)
(* handler generate_image_replicate that the task dispatches to.           *)
(*                                                                         *)
(* Every outbound call of a handler run is recorded in trace[u] with its   *)
(* outcome.  A call to the messaging platform (reply_text, reply_photo,    *)
(* delete_message) either returns or raises; replicate.run returns an      *)
(* output or raises; requests.get / raise_for_status returns or raises a   *)
(* RequestException.                                                       *)
(***************************************************************************)
EXTENDS Integers, Sequences, FiniteSets, TLC

\* Number of updates (webhook deliveries or direct handler invocations).
NumUpdates == 2

Updates == 1..NumUpdates

\* Default of os.getenv("REPLICATE_API_TOKEN", ...), compared at line 60.
Placeholder == "YOUR_REPLICATE_API_TOKEN"

\* A token supplied through the environment.
RealToken == "r8_token"

\* os.environ holds no entry for the variable.
Unset == "<unset>"

\* update.message.text of an inbound update; "" stands for a message
\* without text (text is None or empty: both are falsy at line 56).
Texts == {"", "/start", "a cat"}

\* Values replicate.run can return: an empty list, a list with one URL, or
\* a truthy value that is not a list.
EmptyList == [isList |-> TRUE, items |-> <<>>]
OneUrl == [isList |-> TRUE, items |-> <<"https://img/1">>]
NotAList == [isList |-> FALSE, items |-> <<"https://img/1">>]
Outputs == {EmptyList, OneUrl, NotAList}

\* Outcomes of requests.get + raise_for_status (lines 87-88).
DownloadOutcomes == {"ok", "request_error", "http_error"}

\* Request bodies POSTed to /webhook: a serialized update, or bytes that
\* request.get_json(force=True) rejects.
NoBody == [json |-> FALSE, text |-> ""]
Garbage == [json |-> FALSE, text |-> "garbage"]
Bodies == {[json |-> TRUE, text |-> t] : t \in Texts} \cup {Garbage}

VARIABLES
    config,          \* module globals set at import (lines 20-25)
    environ,         \* os.environ["REPLICATE_API_TOKEN"]
    environWrites,   \* per update: executions of the assignment at line 67
    body,            \* per update: the body of the POST to /webhook
    update,          \* per update: the decoded Update (chat, message id, text)
    http,            \* per update: state of the HTTP request to /webhook
    resp,            \* per update: the HTTP response returned
    task,            \* per update: state of the task made by create_task
    pc,              \* per update: position of the handler coroutine
    sent_message,    \* per update: message id of the interim message (0: unbound)
    image_url,       \* per update: output[0] once bound at line 84 ("": unbound)
    trace,           \* per update: outbound calls made so far, with outcome
    logs             \* per update: logger.error lines written

vars == <<config, environ, environWrites, body, update, http, resp, task, pc,
          sent_message, image_url, trace, logs>>

NoUpdate == [chat_id |-> 0, message_id |-> 0, text |-> ""]

\* Update.de_json: the chat and message identifiers carried by delivery u.
DeJson(u, text) == [chat_id |-> 100 + u, message_id |-> 10 * u, text |-> text]

Call(op, arg, ok, chat, msg) ==
    [op |-> op, arg |-> arg, ok |-> ok, chat |-> chat, msg |-> msg]

\* Messages the run has successfully posted to its chat so far.
Posted(tr) ==
    Cardinality({i \in DOMAIN tr :
                    tr[i].op \in {"reply_text", "reply_photo"} /\ tr[i].ok})

\* update.message.reply_text(...): posts to the update's own chat; on
\* success the platform assigns the next message id of that chat.
ReplyText(u, what, ok) ==
    Call("reply_text", what, ok, update[u].chat_id,
         IF ok THEN update[u].message_id + Posted(trace[u]) + 1 ELSE 0)

\* update.message.reply_photo(...)
ReplyPhoto(u, ok) ==
    Call("reply_photo", "photo", ok, update[u].chat_id,
         IF ok THEN update[u].message_id + Posted(trace[u]) + 1 ELSE 0)

\* context.bot.delete_message(chat_id=update.message.chat_id,
\*                            message_id=sent_message.message_id)
DeleteMessage(u, ok) ==
    Call("delete_message", "interim", ok, update[u].chat_id, sent_message[u])

\* The handler coroutine ends: by returning, or by an exception leaving it.
\* Application.process_update then completes the task that ran it.
Finish(u, how) ==
    /\ pc' = [pc EXCEPT ![u] = how]
    /\ task' = [task EXCEPT ![u] = IF @ = "running" THEN "done" ELSE @]

Init ==
    /\ \E tok \in {Placeholder, RealToken} :
          /\ config = [TELEGRAM_BOT_TOKEN |-> "bot_token",
                       REPLICATE_API_TOKEN |-> tok,
                       WEBHOOK_HOSTNAME |-> "bot.onrender.com"]
          /\ environ \in (IF tok = Placeholder THEN {Unset, Placeholder}
                                               ELSE {tok})
    /\ environWrites = [u \in Updates |-> 0]
    /\ body = [u \in Updates |-> NoBody]
    /\ update = [u \in Updates |-> NoUpdate]
    /\ http = [u \in Updates |-> "none"]
    /\ resp = [u \in Updates |-> "none"]
    /\ task = [u \in Updates |-> "none"]
    /\ pc = [u \in Updates |-> "idle"]
    /\ sent_message = [u \in Updates |-> 0]
    /\ image_url = [u \in Updates |-> ""]
    /\ trace = [u \in Updates |-> <<>>]
    /\ logs = [u \in Updates |-> 0]

----------------------------------------------------------------------------
(* The web server *)

\* The platform (or anyone) POSTs a body to /webhook.
Post(u) ==
    /\ http[u] = "none" /\ pc[u] = "idle"
    /\ \E b \in Bodies : body' = [body EXCEPT ![u] = b]
    /\ http' = [http EXCEPT ![u] = "pending"]
    /\ UNCHANGED <<config, environ, environWrites, update, resp, task, pc,
                   sent_message, image_url, trace, logs>>

\* Variant of webhook_handler that awaits the update's processing before
\* it answers: the task is made and the response is withheld.
webhook_handler_awaits(u) ==
    /\ http[u] = "pending"
    /\ http' = [http EXCEPT ![u] = "awaiting"]
    /\ IF body[u].json
         THEN /\ update' = [update EXCEPT ![u] = DeJson(u, body[u].text)]
              /\ task' = [task EXCEPT ![u] = "scheduled"]
              /\ resp' = resp
         ELSE /\ resp' = [resp EXCEPT ![u] = "400 bad request"]
              /\ UNCHANGED <<update, task>>
    /\ UNCHANGED <<config, environ, environWrites, body, pc,
                   sent_message, image_url, trace, logs>>

\* webhook_handler: decode, create_task, return the acknowledgement.  The
\* coroutine holds no await, so nothing runs between these statements.  A
\* body that get_json rejects ends the request with an error response
\* before any task is made.
webhook_handler(u) ==
    /\ http[u] = "pending"
    /\ http' = [http EXCEPT ![u] = "responded"]
    /\ IF body[u].json
         THEN /\ update' = [update EXCEPT ![u] = DeJson(u, body[u].text)]
              /\ task' = [task EXCEPT ![u] = "scheduled"]
              /\ resp' = [resp EXCEPT ![u] = "200 ok"]
         ELSE /\ resp' = [resp EXCEPT ![u] = "400 bad request"]
              /\ UNCHANGED <<update, task>>
    /\ UNCHANGED <<config, environ, environWrites, body, pc,
                   sent_message, image_url, trace, logs>>

\* The task is made without keeping a reference and is never awaited: the
\* event loop that ran the view can stop before the task has made a call.
CancelTask(u) ==
    /\ task[u] = "scheduled"
    /\ task' = [task EXCEPT ![u] = "cancelled"]
    /\ UNCHANGED <<config, environ, environWrites, body, update, http, resp, pc,
                   sent_message, image_url, trace, logs>>

\* application.process_update: the first handler whose filter matches runs.
\* CommandHandler("start") takes "/start"; MessageHandler(TEXT & ~COMMAND)
\* takes non-empty text that is no command; anything else has no handler.
process_update(u) ==
    /\ task[u] = "scheduled"
    /\ IF update[u].text = "/start"
         THEN /\ pc' = [pc EXCEPT ![u] = "L47"]
              /\ task' = [task EXCEPT ![u] = "running"]
         ELSE IF update[u].text # ""
           THEN /\ pc' = [pc EXCEPT ![u] = "L54"]
                /\ task' = [task EXCEPT ![u] = "running"]
           ELSE /\ task' = [task EXCEPT ![u] = "done"]
                /\ pc' = pc
    /\ UNCHANGED <<config, environ, environWrites, body, update, http, resp,
                   sent_message, image_url, trace, logs>>

\* start: one greeting reply.
start(u) ==
    /\ pc[u] = "L47"
    /\ \E ok \in BOOLEAN :
          /\ trace' = [trace EXCEPT ![u] = Append(@, ReplyText(u, "hello", ok))]
          /\ Finish(u, IF ok THEN "return" ELSE "raised")
    /\ UNCHANGED <<config, environ, environWrites, body, update, http, resp,
                   sent_message, image_url, logs>>

\* generate_image_replicate called on an update without text.  The
\* dispatcher's TEXT filter never passes such an update, so this is the
\* handler called directly: the only way line 56 sees an empty prompt.
Invoke(u) ==
    /\ http[u] = "none" /\ pc[u] = "idle"
    /\ update' = [update EXCEPT ![u] = DeJson(u, "")]
    /\ pc' = [pc EXCEPT ![u] = "L54"]
    /\ UNCHANGED <<config, environ, environWrites, body, http, resp, task,
                   sent_message, image_url, trace, logs>>

----------------------------------------------------------------------------
(* generate_image_replicate *)

\* Lines 56-58: empty prompt.
RejectEmptyPrompt(u) ==
    /\ pc[u] = "L54"
    /\ update[u].text = ""
    /\ \E ok \in BOOLEAN :
          /\ trace' = [trace EXCEPT ![u] =
                          Append(@, ReplyText(u, "provide_prompt", ok))]
          /\ Finish(u, IF ok THEN "return" ELSE "raised")
    /\ UNCHANGED <<config, environ, environWrites, body, update, http, resp,
                   sent_message, image_url, logs>>

\* Variant of RejectMissingToken without the comparison at line 60: the
\* run goes on to the interim reply.
RejectMissingToken_unchecked(u) ==
    /\ pc[u] = "L54"
    /\ update[u].text # ""
    /\ config.REPLICATE_API_TOKEN = Placeholder
    /\ \E ok \in BOOLEAN :
          LET c == ReplyText(u, "generating", ok) IN
          /\ trace' = [trace EXCEPT ![u] = Append(@, c)]
          /\ IF ok
               THEN /\ sent_message' = [sent_message EXCEPT ![u] = c.msg]
                    /\ pc' = [pc EXCEPT ![u] = "L73"]
                    /\ task' = task
               ELSE /\ sent_message' = sent_message
                    /\ Finish(u, "raised")
    /\ UNCHANGED <<config, environ, environWrites, body, update, http, resp,
                   image_url, logs>>

\* Lines 60-64: the token is still the placeholder.
RejectMissingToken(u) ==
    /\ pc[u] = "L54"
    /\ update[u].text # ""
    /\ config.REPLICATE_API_TOKEN = Placeholder
    /\ \E ok \in BOOLEAN :
          /\ trace' = [trace EXCEPT ![u] =
                          Append(@, ReplyText(u, "token_not_set", ok))]
          /\ Finish(u, IF ok THEN "return" ELSE "raised")
    /\ UNCHANGED <<config, environ, environWrites, body, update, http, resp,
                   sent_message, image_url, logs>>

\* Variant of SendInterim that keeps sent_message in one module-level
\* name shared by all runs.
SendInterim_shared(u) ==
    /\ pc[u] = "L54"
    /\ update[u].text # ""
    /\ config.REPLICATE_API_TOKEN # Placeholder
    /\ environ' = config.REPLICATE_API_TOKEN
    /\ environWrites' = [environWrites EXCEPT ![u] = @ + 1]
    /\ \E ok \in BOOLEAN :
          LET c == ReplyText(u, "generating", ok) IN
          /\ trace' = [trace EXCEPT ![u] = Append(@, c)]
          /\ IF ok
               THEN /\ sent_message' = [v \in Updates |-> c.msg]
                    /\ pc' = [pc EXCEPT ![u] = "L73"]
                    /\ task' = task
               ELSE /\ sent_message' = sent_message
                    /\ Finish(u, "raised")
    /\ UNCHANGED <<config, body, update, http, resp, image_url, logs>>

\* Lines 67-69: export the token, then send the interim message.  The reply
\* is outside the try block: its exception leaves the handler.
SendInterim(u) ==
    /\ pc[u] = "L54"
    /\ update[u].text # ""
    /\ config.REPLICATE_API_TOKEN # Placeholder
    /\ environ' = config.REPLICATE_API_TOKEN
    /\ environWrites' = [environWrites EXCEPT ![u] = @ + 1]
    /\ \E ok \in BOOLEAN :
          LET c == ReplyText(u, "generating", ok) IN
          /\ trace' = [trace EXCEPT ![u] = Append(@, c)]
          /\ IF ok
               THEN /\ sent_message' = [sent_message EXCEPT ![u] = c.msg]
                    /\ pc' = [pc EXCEPT ![u] = "L73"]
                    /\ task' = task
               ELSE /\ sent_message' = sent_message
                    /\ Finish(u, "raised")
    /\ UNCHANGED <<config, body, update, http, resp, image_url, logs>>

\* Line 83: output and isinstance(output, list) and len(output) > 0
HasImage(out) == out.isList /\ Len(out.items) > 0

\* Lines 73-84: the generation call, then the branch on its output.
RunReplicate(u) ==
    /\ pc[u] = "L73"
    /\ \/ \E out \in Outputs :
            /\ trace' = [trace EXCEPT ![u] =
                            Append(@, Call("replicate.run", "prompt", TRUE, 0, 0))]
            /\ image_url' = [image_url EXCEPT ![u] =
                                IF HasImage(out) THEN out.items[1] ELSE @]
            /\ pc' = [pc EXCEPT ![u] = IF HasImage(out) THEN "L87" ELSE "L95"]
       \/ /\ trace' = [trace EXCEPT ![u] =
                          Append(@, Call("replicate.run", "prompt", FALSE, 0, 0))]
          /\ image_url' = image_url
          /\ pc' = [pc EXCEPT ![u] = "L104"]
    /\ UNCHANGED <<config, environ, environWrites, body, update, http, resp, task,
                   sent_message, logs>>

\* Lines 87-89: fetch image_url; any RequestException goes to line 98.
Download(u) ==
    /\ pc[u] = "L87"
    /\ \E res \in DownloadOutcomes :
          /\ trace' = [trace EXCEPT ![u] =
                          Append(@, Call("requests.get", res, res = "ok", 0, 0))]
          /\ pc' = [pc EXCEPT ![u] = IF res = "ok" THEN "L91" ELSE "L99"]
    /\ UNCHANGED <<config, environ, environWrites, body, update, http, resp, task,
                   sent_message, image_url, logs>>

\* Line 91: the photo reply, inside the try block.
SendPhoto(u) ==
    /\ pc[u] = "L91"
    /\ \E ok \in BOOLEAN :
          /\ trace' = [trace EXCEPT ![u] = Append(@, ReplyPhoto(u, ok))]
          /\ pc' = [pc EXCEPT ![u] = IF ok THEN "L92" ELSE "L104"]
    /\ UNCHANGED <<config, environ, environWrites, body, update, http, resp, task,
                   sent_message, image_url, logs>>

\* Variant of DeleteAfterPhoto that returns without the delete call.
DeleteAfterPhoto_skipped(u) ==
    /\ pc[u] = "L92"
    /\ trace' = trace
    /\ Finish(u, "return")
    /\ UNCHANGED <<config, environ, environWrites, body, update, http, resp,
                   sent_message, image_url, logs>>

\* Line 92: delete the interim message, still inside the try block.
DeleteAfterPhoto(u) ==
    /\ pc[u] = "L92"
    /\ \E ok \in BOOLEAN :
          /\ trace' = [trace EXCEPT ![u] = Append(@, DeleteMessage(u, ok))]
          /\ IF ok THEN Finish(u, "return")
                   ELSE pc' = [pc EXCEPT ![u] = "L104"] /\ task' = task
    /\ UNCHANGED <<config, environ, environWrites, body, update, http, resp,
                   sent_message, image_url, logs>>

\* Line 95: no usable output.
ReplyNoOutput(u) ==
    /\ pc[u] = "L95"
    /\ \E ok \in BOOLEAN :
          /\ trace' = [trace EXCEPT ![u] =
                          Append(@, ReplyText(u, "no_output", ok))]
          /\ pc' = [pc EXCEPT ![u] = IF ok THEN "L96" ELSE "L104"]
    /\ UNCHANGED <<config, environ, environWrites, body, update, http, resp, task,
                   sent_message, image_url, logs>>

\* Line 96
DeleteAfterNoOutput(u) ==
    /\ pc[u] = "L96"
    /\ \E ok \in BOOLEAN :
          /\ trace' = [trace EXCEPT ![u] = Append(@, DeleteMessage(u, ok))]
          /\ IF ok THEN Finish(u, "return")
                   ELSE pc' = [pc EXCEPT ![u] = "L104"] /\ task' = task
    /\ UNCHANGED <<config, environ, environWrites, body, update, http, resp,
                   sent_message, image_url, logs>>

\* Variant of HandleRequestException whose delivered reply is followed by
\* the generic handler as well.
HandleRequestException_fallthrough(u) ==
    /\ pc[u] = "L99"
    /\ logs' = [logs EXCEPT ![u] = @ + 1]
    /\ \E ok \in BOOLEAN :
          /\ trace' = [trace EXCEPT ![u] =
                          Append(@, ReplyText(u, "download_failed", ok))]
          /\ IF ok THEN pc' = [pc EXCEPT ![u] = "L104"] /\ task' = task
                   ELSE Finish(u, "raised")
    /\ UNCHANGED <<config, environ, environWrites, body, update, http, resp,
                   sent_message, image_url>>

\* Lines 98-100: except RequestException: log, then the error reply.  An
\* exception raised by the reply inside the handler leaves the coroutine.
HandleRequestException(u) ==
    /\ pc[u] = "L99"
    /\ logs' = [logs EXCEPT ![u] = @ + 1]
    /\ \E ok \in BOOLEAN :
          /\ trace' = [trace EXCEPT ![u] =
                          Append(@, ReplyText(u, "download_failed", ok))]
          /\ IF ok THEN pc' = [pc EXCEPT ![u] = "L101"] /\ task' = task
                   ELSE Finish(u, "raised")
    /\ UNCHANGED <<config, environ, environWrites, body, update, http, resp,
                   sent_message, image_url>>

\* Lines 104-108: except Exception: log, then the error reply.
HandleException(u) ==
    /\ pc[u] = "L104"
    /\ logs' = [logs EXCEPT ![u] = @ + 1]
    /\ \E ok \in BOOLEAN :
          /\ trace' = [trace EXCEPT ![u] =
                          Append(@, ReplyText(u, "generation_error", ok))]
          /\ IF ok THEN pc' = [pc EXCEPT ![u] = "L109"] /\ task' = task
                   ELSE Finish(u, "raised")
    /\ UNCHANGED <<config, environ, environWrites, body, update, http, resp,
                   sent_message, image_url>>

\* Variant of DeleteInHandler that returns without the delete call.
DeleteInHandler_skipped(u) ==
    /\ pc[u] \in {"L101", "L109"}
    /\ trace' = trace
    /\ Finish(u, "return")
    /\ UNCHANGED <<config, environ, environWrites, body, update, http, resp,
                   sent_message, image_url, logs>>

\* Lines 101-102 and 109-110: if sent_message: delete it.
DeleteInHandler(u) ==
    /\ pc[u] \in {"L101", "L109"}
    /\ IF sent_message[u] # 0
         THEN \E ok \in BOOLEAN :
                 /\ trace' = [trace EXCEPT ![u] = Append(@, DeleteMessage(u, ok))]
                 /\ Finish(u, IF ok THEN "return" ELSE "raised")
         ELSE /\ trace' = trace
              /\ Finish(u, "return")
    /\ UNCHANGED <<config, environ, environWrites, body, update, http, resp,
                   sent_message, image_url, logs>>

----------------------------------------------------------------------------
(* Reading a run's trace *)

ErrorTexts ==
    {"provide_prompt", "token_not_set", "no_output", "download_failed",
     "generation_error"}

PlatformOps == {"reply_text", "reply_photo", "delete_message"}

IsErrorReply(c) == c.op = "reply_text" /\ c.arg \in ErrorTexts
IsInterim(c) == c.op = "reply_text" /\ c.arg = "generating"

\* Positions of the trace whose call satisfies P.
Where(tr, P(_)) == {i \in DOMAIN tr : P(tr[i])}

IsGeneration(c) == c.op = "replicate.run"
IsDownload(c) == c.op = "requests.get"
IsPhoto(c) == c.op = "reply_photo"
IsDelete(c) == c.op = "delete_message"
IsSentError(c) == IsErrorReply(c) /\ c.ok
IsSentPhoto(c) == IsPhoto(c) /\ c.ok
IsFailedPlatformCall(c) == c.op \in PlatformOps /\ ~c.ok
IsFailedDownload(c) == IsDownload(c) /\ ~c.ok
IsFailedGeneration(c) == IsGeneration(c) /\ ~c.ok

Ops(tr) == [i \in DOMAIN tr |-> tr[i].op]

\* update u is (or was) handled by generate_image_replicate.
InPipeline(u) ==
    /\ pc[u] \notin {"idle", "L47"}
    /\ Where(trace[u], LAMBDA c : c.arg = "hello") = {}

\* The handler coroutine of u has ended.
Terminated(u) == pc[u] \in {"return", "raised"}

\* Every call the run made to the messaging platform returned.
PlatformOk(u) == Where(trace[u], IsFailedPlatformCall) = {}

\* The generation call returned a list holding a result URL.
GotUrl(u) == image_url[u] # ""

DownloadOk(u) == Where(trace[u], LAMBDA c : IsDownload(c) /\ c.ok) # {}
DownloadFailed(u) == Where(trace[u], IsFailedDownload) # {}

\* The run was rejected before the interim message.
Rejected(u) ==
    update[u].text = "" \/ config.REPLICATE_API_TOKEN = Placeholder

HappyPath ==
    <<"reply_text", "replicate.run", "requests.get", "reply_photo",
      "delete_message">>

DownloadFailurePath ==
    <<"reply_text", "replicate.run", "requests.get", "reply_text",
      "delete_message">>

IsPrefix(s, t) == Len(s) <= Len(t) /\ s = SubSeq(t, 1, Len(s))

----------------------------------------------------------------------------
(* Claims *)

\* C1: a POST whose body decodes to an update is answered 200 "ok" by the
\* step that makes the task and by nothing later: no call of the handler
\* run precedes the response, and the response is 200 in every later
\* state, whether the run returns, raises or never runs.
C1_AckWithoutWaiting ==
    \A u \in Updates :
        /\ (http[u] = "responded" /\ body[u].json) => resp[u] = "200 ok"
        /\ task[u] # "none" => resp[u] = "200 ok"
        /\ http[u] = "pending" =>
              /\ task[u] = "none" /\ pc[u] = "idle" /\ trace[u] = <<>>
              /\ resp[u] = "none"
        /\ (http[u] = "responded" /\ ~body[u].json) =>
              resp[u] # "200 ok" /\ task[u] = "none"

\* C1 witness: acknowledged updates whose runs ended by an exception, by a
\* return, and by never running.
C1_Witness ==
    /\ \E u \in Updates : resp[u] = "200 ok" /\ pc[u] = "raised"
    /\ \E u \in Updates : resp[u] = "200 ok" /\ task[u] = "cancelled"

\* C2: when the generation call returned a URL and the download succeeded,
\* the run made exactly one interim reply, one generation call, one
\* download and one photo call, in this order; and when the platform
\* accepted its calls, the whole run is interim, generation, download,
\* photo, delete, each once, with no error reply.
C2_HappyPathOrder ==
    \A u \in Updates :
        (InPipeline(u) /\ GotUrl(u) /\ DownloadOk(u)) =>
            /\ update[u].text # "" /\ config.REPLICATE_API_TOKEN # Placeholder
            /\ IsPrefix(SubSeq(HappyPath, 1, 3), Ops(trace[u]))
            /\ IsInterim(trace[u][1])
            /\ Cardinality(Where(trace[u], IsInterim)) = 1
            /\ Cardinality(Where(trace[u], IsGeneration)) = 1
            /\ Cardinality(Where(trace[u], IsDownload)) = 1
            /\ Cardinality(Where(trace[u], IsPhoto)) <= 1
            /\ Len(trace[u]) >= 4 => IsPhoto(trace[u][4])
            /\ PlatformOk(u) =>
                  /\ IsPrefix(Ops(trace[u]), HappyPath)
                  /\ Where(trace[u], IsErrorReply) = {}
                  /\ Terminated(u) =>
                        /\ Ops(trace[u]) = HappyPath
                        /\ pc[u] = "return"
                        /\ trace[u][5].msg = trace[u][1].msg

\* C2 witness: a run that returned after the five calls.
C2_Witness ==
    \E u \in Updates :
        /\ pc[u] = "return" /\ GotUrl(u) /\ DownloadOk(u)
        /\ Ops(trace[u]) = HappyPath /\ PlatformOk(u)

C4_DownloadFailure ==
    \A u \in Updates :
        (InPipeline(u) /\ DownloadFailed(u)) =>
            /\ GotUrl(u)
            /\ Where(trace[u], IsPhoto) = {}
            /\ Cardinality(Where(trace[u], IsErrorReply)) <= 1
            /\ Cardinality(Where(trace[u], IsDelete)) <= 1
            /\ IsPrefix(Ops(trace[u]), DownloadFailurePath)
            /\ logs[u] <= 1
            /\ pc[u] # "L99" =>
                  /\ Len(trace[u]) >= 4
                  /\ trace[u][4].arg = "download_failed"
                  /\ logs[u] = 1
            /\ (Terminated(u) /\ Where(trace[u], IsSentError) # {}) =>
                  /\ Ops(trace[u]) = DownloadFailurePath
                  /\ trace[u][5].msg = trace[u][1].msg
                  /\ trace[u][5].chat = update[u].chat_id

\* C4 witness: both kinds of download failure, each reported and followed
\* by the delete.
C4_Witness ==
    \E u, v \in Updates :
        /\ Terminated(u) /\ Terminated(v)
        /\ Ops(trace[u]) = DownloadFailurePath
        /\ Ops(trace[v]) = DownloadFailurePath
        /\ trace[u][3].arg = "http_error"
        /\ trace[v][3].arg = "request_error"
        /\ trace[u][4].ok /\ trace[v][4].ok

\* C5: a run with an empty prompt, or with a non-empty prompt and the
\* placeholder token, makes exactly one call: the matching reply.  It makes
\* no generation call, no download and no interim reply.
C5_RejectedBeforeGeneration ==
    \A u \in Updates :
        (InPipeline(u) /\ Rejected(u)) =>
            /\ pc[u] \in {"L54", "return", "raised"}
            /\ pc[u] = "L54" => trace[u] = <<>>
            /\ Terminated(u) =>
                  /\ Len(trace[u]) = 1
                  /\ trace[u][1].op = "reply_text"
                  /\ trace[u][1].arg =
                        (IF update[u].text = "" THEN "provide_prompt"
                                                ELSE "token_not_set")
                  /\ trace[u][1].chat = update[u].chat_id
            /\ environWrites[u] = 0 /\ sent_message[u] = 0

\* C5 witness: one run rejected for its empty prompt and one for the
\* missing token.
C5_Witness ==
    \E u, v \in Updates :
        /\ pc[u] = "return" /\ update[u].text = ""
        /\ trace[u][1].arg = "provide_prompt"
        /\ pc[v] = "return" /\ update[v].text # ""
        /\ trace[v][1].arg = "token_not_set"

\* C6 as stated: generation and download are attempted at most once, and a
\* run that failed has delivered exactly one error reply and written
\* exactly one error log line.
C6_ReportedExactlyOnce ==
    \A u \in Updates :
        InPipeline(u) =>
            /\ Cardinality(Where(trace[u], IsGeneration)) <= 1
            /\ Cardinality(Where(trace[u], IsDownload)) <= 1
            /\ (Terminated(u)
                  /\ (\/ Rejected(u)
                      \/ Where(trace[u], IsFailedGeneration) # {}
                      \/ (Where(trace[u], IsGeneration) # {} /\ ~GotUrl(u))
                      \/ DownloadFailed(u)
                      \/ ~PlatformOk(u))) =>
                  /\ Cardinality(Where(trace[u], IsSentError)) = 1
                  /\ logs[u] = 1

\* C7 as stated: no exception leaves generate_image_replicate, and a
\* pending webhook request can always be handled.
C7_NoExceptionEscapes ==
    /\ \A u \in Updates : InPipeline(u) => pc[u] # "raised"
    /\ \A u \in Updates : http[u] = "pending" => ENABLED webhook_handler(u)

\* C8 as stated, on the runs that have ended: once the task of an
\* acknowledged update is over, the update went through
\* generate_image_replicate and a photo or an error reply was delivered.
C8_AcknowledgedReachesOutcome ==
    \A u \in Updates :
        (resp[u] = "200 ok" /\ task[u] \in {"done", "cancelled"}) =>
            /\ InPipeline(u)
            /\ \/ Where(trace[u], IsSentPhoto) # {}
               \/ Where(trace[u], IsSentError) # {}

\* The call a run makes next is fixed by its own prompt, the token and the
\* outcome of its own previous calls.  NextArgs gives the calls (by their
\* argument) that can follow the prefix tr of a run alone; "end" is no call.
NextArgs(tr, text, tok) ==
    IF tr = <<>>
      THEN IF text = "" THEN {"provide_prompt"}
           ELSE IF tok = Placeholder THEN {"token_not_set"}
           ELSE {"generating"}
      ELSE LET c == tr[Len(tr)] IN
        CASE c.arg \in {"provide_prompt", "token_not_set"} -> {"end"}
          [] c.arg = "generating" -> IF c.ok THEN {"prompt"} ELSE {"end"}
          [] c.op = "replicate.run" ->
                IF c.ok THEN DownloadOutcomes \cup {"no_output"}
                        ELSE {"generation_error"}
          [] c.op = "requests.get" ->
                IF c.ok THEN {"photo"} ELSE {"download_failed"}
          [] c.arg \in {"photo", "no_output"} ->
                IF c.ok THEN {"interim"} ELSE {"generation_error"}
          [] c.arg \in {"download_failed", "generation_error"} ->
                IF c.ok THEN {"interim"} ELSE {"end"}
          [] c.op = "delete_message" ->
                IF ~c.ok /\ tr[Len(tr) - 1].arg \in {"photo", "no_output"}
                  THEN {"generation_error"} ELSE {"end"}
          [] OTHER -> {}

\* Every call of the trace is one the run could make next on its own.
RunsAsAlone(u) ==
    /\ \A i \in DOMAIN trace[u] :
          trace[u][i].arg \in
              NextArgs(SubSeq(trace[u], 1, i - 1), update[u].text,
                       config.REPLICATE_API_TOKEN)
    /\ Terminated(u) =>
          "end" \in NextArgs(trace[u], update[u].text,
                             config.REPLICATE_API_TOKEN)

\* Every reply, photo and delete goes to the run's own chat, and every
\* delete names the message id its own interim reply returned.
OwnAddressing(u) ==
    \A i \in DOMAIN trace[u] :
        LET c == trace[u][i] IN
        /\ c.op \in PlatformOps => c.chat = update[u].chat_id
        /\ (c.op \in {"reply_text", "reply_photo"} /\ c.ok) =>
              c.msg > update[u].message_id
        /\ IsDelete(c) =>
              /\ IsInterim(trace[u][1]) /\ trace[u][1].ok
              /\ c.msg = trace[u][1].msg

\* A step changes the handler state of at most one update.
OneRunPerStep ==
    \A u, v \in Updates :
        (u # v /\ <<pc[u], trace[u], sent_message[u], image_url[u], logs[u]>>
                    # <<pc'[u], trace'[u], sent_message'[u], image_url'[u],
                         logs'[u]>>) =>
            <<pc[v], trace[v], sent_message[v], image_url[v], logs[v],
              update[v], task[v]>>
              = <<pc'[v], trace'[v], sent_message'[v], image_url'[v],
                  logs'[v], update'[v], task'[v]>>

\* C9 as stated: runs are independent, address only their own chat and
\* interim message, and never write process-wide state.
C9_IndependentNoWrites ==
    \A u \in Updates :
        InPipeline(u) =>
            RunsAsAlone(u) /\ OwnAddressing(u) /\ environWrites[u] = 0

\* C9 amended: runs are independent and address only their own chat and
\* interim message; a run past its checks assigns
\* os.environ["REPLICATE_API_TOKEN"] once, with the value it already
\* holds, so no step changes the value of the configuration or of the
\* environment entry.
C9_IndependentSameValue ==
    /\ [](\A u \in Updates :
            InPipeline(u) =>
                /\ RunsAsAlone(u) /\ OwnAddressing(u)
                /\ environWrites[u] =
                      (IF trace[u] # <<>> /\ IsInterim(trace[u][1])
                         THEN 1 ELSE 0))
    /\ [][environ' = environ /\ config' = config /\ OneRunPerStep]_vars

\* C9 witness: two runs, each between its generation call and its delete.
C9_Witness ==
    \E u, v \in Updates :
        /\ u # v
        /\ pc[u] = "L87" /\ pc[v] = "L92"
        /\ environWrites[u] = 1 /\ environWrites[v] = 1

\* C10 as stated: a photo and an error reply are never both delivered in
\* one run, and the interim message is deleted only after the run's final
\* reply (photo or error) was delivered.
C10_ExclusiveOutcome ==
    \A u \in Updates :
        InPipeline(u) =>
            /\ ~(Where(trace[u], IsSentPhoto) # {}
                   /\ Where(trace[u], IsSentError) # {})
            /\ \A i \in Where(trace[u], LAMBDA c : IsDelete(c) /\ c.ok) :
                  \E j \in 1..(i - 1) :
                      IsSentPhoto(trace[u][j]) \/ IsSentError(trace[u][j])

----------------------------------------------------------------------------

Next ==
    \E u \in Updates :
        \/ Post(u)
        \/ webhook_handler(u)
        \/ CancelTask(u)
        \/ process_update(u)
        \/ start(u)
        \/ Invoke(u)
        \/ RejectEmptyPrompt(u)
        \/ RejectMissingToken(u)
        \/ SendInterim(u)
        \/ RunReplicate(u)
        \/ Download(u)
        \/ SendPhoto(u)
        \/ DeleteAfterPhoto(u)
        \/ ReplyNoOutput(u)
        \/ DeleteAfterNoOutput(u)
        \/ HandleRequestException(u)
        \/ HandleException(u)
        \/ DeleteInHandler(u)

Spec == Init /\ [][Next]_vars

=============================================================================
